---- MODULE Spec2Model ----
\* Model of the Beauty Dropship API (src/main.py): the FastAPI resource
\* handlers, the identifier normalisation helper and the startup seeder, over
\* a document store with the collections product, order and newsletter.
\*
\* Strings that the code inspects character by character (ObjectId strings,
\* e-mail addresses) are sequences of one-character strings.  A native
\* ObjectId is modelled by the natural number its twelve bytes encode.
EXTENDS Integers, Sequences, FiniteSets, Bags, TLC

VARIABLES
    db,          \* the module global db of src/main.py:8: "None" or "Connected"
    product,     \* collection "product", documents in insertion order
    order,       \* collection "order"
    newsletter,  \* collection "newsletter"
    nextId,      \* the next ObjectId the store assigns
    pending,     \* bag of the signup requests between their two store calls
    history,     \* the last two completed handler runs, older first
    served,      \* number of requests accepted so far
    seeded       \* number of runs of the startup event so far

vars == <<db, product, order, newsletter, nextId, pending, history, served, seeded>>

\* ------------------------------------------------------------------ bounds

MaxRequests == 2
MaxSeedRuns == 2
MaxThreads == 2

\* ------------------------------------------------------- ObjectId strings

HexLower == <<"0","1","2","3","4","5","6","7","8","9","a","b","c","d","e","f">>
HexUpper == <<"0","1","2","3","4","5","6","7","8","9","A","B","C","D","E","F">>

IsHexChar(c) == \E i \in 1..16 : HexLower[i] = c \/ HexUpper[i] = c

HexVal(c) == (CHOOSE i \in 1..16 : HexLower[i] = c \/ HexUpper[i] = c) - 1

RECURSIVE ToHex(_, _)
\* str(ObjectId): the value in lower-case hexadecimal, len digits wide.
ToHex(n, len) ==
    IF len = 0 THEN <<>>
    ELSE Append(ToHex(n \div 16, len - 1), HexLower[(n % 16) + 1])

RECURSIVE FromHex(_)
FromHex(s) ==
    IF Len(s) = 0 THEN 0
    ELSE FromHex(SubSeq(s, 1, Len(s) - 1)) * 16 + HexVal(s[Len(s)])

StrOfObjectId(n) == ToHex(n, 24)

\* ObjectId(product_id): a str is accepted iff it has 24 characters, all
\* hexadecimal digits of either case; anything else raises InvalidId.
ObjectIdValid(s) == Len(s) = 24 /\ \A i \in 1..Len(s) : IsHexChar(s[i])

ObjectIdOf(s) == FromHex(s)

\* ------------------------------------------------------------- documents

\* dict.pop(key) / {**doc, key: value}
Without(doc, key) == [k \in (DOMAIN doc) \ {key} |-> doc[k]]
With(doc, key, value) ==
    [k \in (DOMAIN doc) \cup {key} |-> IF k = key THEN value ELSE doc[k]]

\* to_str_id reading d["_id"] where the code pops it.
to_str_id_keep_native(doc) ==
    IF DOMAIN doc = {} THEN doc
    ELSE IF "_id" \in DOMAIN doc
         THEN With(doc, "id", StrOfObjectId(doc["_id"]))
         ELSE doc

to_str_id(doc) ==
    IF DOMAIN doc = {} THEN doc
    ELSE IF "_id" \in DOMAIN doc
         THEN With(Without(doc, "_id"), "id", StrOfObjectId(doc["_id"]))
         ELSE doc

Store == [product |-> product, order |-> order, newsletter |-> newsletter]


\* ------------------------------------------------- payload validation

\* EmailStr: exactly one "@", with a non-empty part on either side.
EmailValid(e) ==
    /\ Len(e) >= 3
    /\ Cardinality({i \in 1..Len(e) : e[i] = "@"}) = 1
    /\ e[1] # "@"
    /\ e[Len(e)] # "@"

ToLower(c) ==
    CASE c = "A" -> "a"
      [] c = "B" -> "b"
      [] c = "X" -> "x"
      [] OTHER -> c

AtIndex(e) == CHOOSE i \in 1..Len(e) : e[i] = "@"

\* The value EmailStr hands to the handler: the domain part in lower case.
EmailNormalized(e) ==
    [i \in 1..Len(e) |-> IF i > AtIndex(e) THEN ToLower(e[i]) ELSE e[i]]

\* OrderItem with a plain "quantity: int".
OrderItemValid_no_minimum(item) == item.quantity \in Int

\* class OrderItem: quantity: int = Field(ge=1)
OrderItemValid(item) == item.quantity \in Int /\ item.quantity >= 1

\* class Order: items: List[OrderItem] carries no length constraint.
OrderValid(o) ==
    /\ EmailValid(o.email)
    /\ \A i \in 1..Len(o.items) : OrderItemValid(o.items[i])

\* order.model_dump()
OrderDump(o) ==
    ("name" :> o.name) @@ ("email" :> EmailNormalized(o.email))
    @@ ("address" :> o.address) @@ ("city" :> o.city)
    @@ ("country" :> o.country) @@ ("items" :> o.items) @@ ("notes" :> o.notes)

NewsletterSignupValid(p) == EmailValid(p.email)

\* payload.model_dump()
NewsletterDump(p) == ("email" :> EmailNormalized(p.email))

\* ------------------------------------------------------------ responses

\* kind names the raise site that produced the response; it is not sent.
Response(status, kind, body) == [status |-> status, kind |-> kind, body |-> body]

HTTPException(status, kind, detail) == Response(status, kind, ("detail" :> detail))

\* FastAPI answers a payload that fails validation itself; the handler
\* function is not called.
RequestValidationError == HTTPException(422, "ValidationFailed", "validation error")

\* ------------------------------------------- database module (imported)

\* get_documents(collection, {}, limit=None)
get_documents(dbv, coll) ==
    IF dbv = "None"
    THEN [raised |-> TRUE, kind |-> "StoreUnavailable",
          detail |-> "Database not available", value |-> <<>>, calls |-> 0]
    ELSE [raised |-> FALSE, kind |-> "ok", detail |-> "", value |-> coll, calls |-> 1]

\* create_document(collection, data): a fresh identity, the document
\* appended to the collection, the identity's string form returned; on
\* failure nothing is persisted.
create_document(dbv, coll, data, id, fails) ==
    IF dbv = "None"
    THEN [raised |-> TRUE, kind |-> "StoreUnavailable",
          detail |-> "Database not available", value |-> <<>>,
          coll |-> coll, nextId |-> id, calls |-> 0]
    ELSE IF fails
    THEN [raised |-> TRUE, kind |-> "StoreWriteFailed",
          detail |-> "insert failed", value |-> <<>>,
          coll |-> coll, nextId |-> id, calls |-> 1]
    ELSE [raised |-> FALSE, kind |-> "ok", detail |-> "",
          value |-> StrOfObjectId(id),
          coll |-> Append(coll, With(data, "_id", id)), nextId |-> id + 1, calls |-> 1]

\* ------------------------------------------------------ product routes

list_products(dbv, coll) ==
    LET r == get_documents(dbv, coll) IN
    IF r.raised
    THEN [resp |-> HTTPException(500, r.kind, r.detail), calls |-> r.calls]
    ELSE [resp |-> Response(200, "ok", [i \in 1..Len(r.value) |-> to_str_id(r.value[i])]),
          calls |-> r.calls]

\* db["product"].find_one({"_id": oid})
FindById(coll, oid) == {i \in 1..Len(coll) : coll[i]["_id"] = oid}

\* get_product parsing the id before it tests db.
get_product_db_check_late(dbv, coll, product_id) ==
    IF ~ObjectIdValid(product_id)
    THEN [resp |-> HTTPException(400, "InvalidIdentifier", "not a valid ObjectId"),
          calls |-> 0]
    ELSE IF dbv = "None"
    THEN [resp |-> HTTPException(400, "StoreUnavailable", "Database not available"),
          calls |-> 0]
    ELSE IF FindById(coll, ObjectIdOf(product_id)) = {}
    THEN [resp |-> HTTPException(404, "NotFound", "Product not found"), calls |-> 1]
    ELSE [resp |-> Response(200, "ok",
                     to_str_id(coll[CHOOSE i \in FindById(coll, ObjectIdOf(product_id)) :
                                      \A j \in FindById(coll, ObjectIdOf(product_id)) : i <= j])),
          calls |-> 1]

\* get_product without "except HTTPException: raise".
get_product_not_found_as_400(dbv, coll, product_id) ==
    IF dbv = "None"
    THEN [resp |-> HTTPException(400, "StoreUnavailable", "Database not available"),
          calls |-> 0]
    ELSE IF ~ObjectIdValid(product_id)
    THEN [resp |-> HTTPException(400, "InvalidIdentifier", "not a valid ObjectId"),
          calls |-> 0]
    ELSE IF FindById(coll, ObjectIdOf(product_id)) = {}
    THEN [resp |-> HTTPException(400, "NotFound", "Product not found"), calls |-> 1]
    ELSE [resp |-> Response(200, "ok",
                     to_str_id(coll[CHOOSE i \in FindById(coll, ObjectIdOf(product_id)) :
                                      \A j \in FindById(coll, ObjectIdOf(product_id)) : i <= j])),
          calls |-> 1]

\* The raised Exception("Database not available") and the InvalidId raised
\* by ObjectId(...) both reach "except Exception" and become status 400;
\* the HTTPException(404) is re-raised as it is.
get_product(dbv, coll, product_id) ==
    IF dbv = "None"
    THEN [resp |-> HTTPException(400, "StoreUnavailable", "Database not available"),
          calls |-> 0]
    ELSE IF ~ObjectIdValid(product_id)
    THEN [resp |-> HTTPException(400, "InvalidIdentifier", "not a valid ObjectId"),
          calls |-> 0]
    ELSE IF FindById(coll, ObjectIdOf(product_id)) = {}
    THEN [resp |-> HTTPException(404, "NotFound", "Product not found"), calls |-> 1]
    ELSE [resp |-> Response(200, "ok",
                     to_str_id(coll[CHOOSE i \in FindById(coll, ObjectIdOf(product_id)) :
                                      \A j \in FindById(coll, ObjectIdOf(product_id)) : i <= j])),
          calls |-> 1]

\* ---------------------------------------------------- checkout / leads

create_order(dbv, coll, payload, id) ==
    LET r == create_document(dbv, coll, OrderDump(payload), id, FALSE) IN
    IF r.raised
    THEN [resp |-> HTTPException(500, r.kind, r.detail),
          coll |-> r.coll, nextId |-> r.nextId, calls |-> r.calls]
    ELSE [resp |-> Response(200, "ok", ("id" :> r.value) @@ ("status" :> "received")),
          coll |-> r.coll, nextId |-> r.nextId, calls |-> r.calls]

\* signup_newsletter without the duplicate check.
signup_newsletter_exists_unchecked(coll, payload) == FALSE

\* exists = db["newsletter"].find_one({"email": payload.email}); if exists: ...
signup_newsletter_exists(coll, payload) ==
    \E i \in 1..Len(coll) : coll[i]["email"] = EmailNormalized(payload.email)

\* create_document("newsletter", payload.model_dump()) and the response
signup_newsletter_insert(dbv, coll, payload, id) ==
    LET r == create_document(dbv, coll, NewsletterDump(payload), id, FALSE) IN
    IF r.raised
    THEN [resp |-> HTTPException(500, r.kind, r.detail),
          coll |-> r.coll, nextId |-> r.nextId, calls |-> r.calls]
    ELSE [resp |-> Response(200, "ok", ("id" :> r.value) @@ ("status" :> "subscribed")),
          coll |-> r.coll, nextId |-> r.nextId, calls |-> r.calls]


\* ------------------------------------------------------ startup seeder

sample_products == <<
    [title |-> "Aurora Glass Perfume",
     description |-> "A luminous, floral scent with notes of iris and pear. Minimal bottle, maximal compliments.",
     price |-> 59, category |-> "fragrance", in_stock |-> TRUE,
     image |-> "https://images.unsplash.com/photo-1523297730390-9f2d9e9a8f49?q=80&w=1200&auto=format&fit=crop",
     badge |-> "Bestseller"],
    [title |-> "Velvet Matte Lipstick",
     description |-> "Feather-light, full-impact color. Long-wear without the dry feel.",
     price |-> 21, category |-> "makeup", in_stock |-> TRUE,
     image |-> "https://images.unsplash.com/photo-1585386959984-a41552231658?q=80&w=1200&auto=format&fit=crop",
     badge |-> "New"],
    [title |-> "Silk Glow Highlighter",
     description |-> "Ultra-fine shimmer for a lit-from-within finish.",
     price |-> 28, category |-> "makeup", in_stock |-> TRUE,
     image |-> "https://images.unsplash.com/photo-1596464716121-d9f0d2f6f9b0?q=80&w=1200&auto=format&fit=crop",
     badge |-> "Limited"],
    [title |-> "Cloud Cleanser",
     description |-> "pH-balanced gel cleanser that leaves skin soft and fresh.",
     price |-> 19, category |-> "skincare", in_stock |-> TRUE,
     image |-> "https://images.unsplash.com/photo-1598440947619-2c35fc9aa808?q=80&w=1200&auto=format&fit=crop",
     badge |-> "Award-winning"] >>

RECURSIVE SeedLoop(_, _, _, _, _, _)
\* for p in sample_products: create_document("product", p); the first
\* insert that raises ends the loop.  failAt names the insert that fails.
SeedLoop(dbv, coll, id, i, failAt, calls) ==
    IF i > Len(sample_products)
    THEN [raised |-> FALSE, coll |-> coll, nextId |-> id, calls |-> calls]
    ELSE LET r == create_document(dbv, coll, sample_products[i], id, failAt = i) IN
         IF r.raised
         THEN [raised |-> TRUE, coll |-> r.coll, nextId |-> r.nextId,
               calls |-> calls + r.calls]
         ELSE SeedLoop(dbv, r.coll, r.nextId, i + 1, failAt, calls + r.calls)

\* The seeder without "if count > 0: return".
seed_products_always(dbv, coll, id, failAt) ==
    IF dbv = "None"
    THEN [outcome |-> "returned", coll |-> coll, nextId |-> id, calls |-> 0]
    ELSE IF failAt = 0
    THEN [outcome |-> "returned", coll |-> coll, nextId |-> id, calls |-> 1]
    ELSE LET r == SeedLoop(dbv, coll, id, 1, failAt, 1) IN
         [outcome |-> "returned", coll |-> r.coll, nextId |-> r.nextId, calls |-> r.calls]

\* The seeder without its try/except.
seed_products_uncaught(dbv, coll, id, failAt) ==
    IF dbv = "None"
    THEN [outcome |-> "returned", coll |-> coll, nextId |-> id, calls |-> 0]
    ELSE IF failAt = 0
    THEN [outcome |-> "raised", coll |-> coll, nextId |-> id, calls |-> 1]
    ELSE IF Len(coll) > 0
    THEN [outcome |-> "returned", coll |-> coll, nextId |-> id, calls |-> 1]
    ELSE LET r == SeedLoop(dbv, coll, id, 1, failAt, 1) IN
         [outcome |-> IF r.raised THEN "raised" ELSE "returned",
          coll |-> r.coll, nextId |-> r.nextId, calls |-> r.calls]

\* failAt = 0: count_documents raises; failAt = k in 1..4: the k-th insert
\* raises; any other value: no store call fails.  "except Exception: pass"
\* ends every failing run with a normal return.
seed_products_if_empty(dbv, coll, id, failAt) ==
    IF dbv = "None"
    THEN [outcome |-> "returned", coll |-> coll, nextId |-> id, calls |-> 0]
    ELSE IF failAt = 0
    THEN [outcome |-> "returned", coll |-> coll, nextId |-> id, calls |-> 1]
    ELSE IF Len(coll) > 0
    THEN [outcome |-> "returned", coll |-> coll, nextId |-> id, calls |-> 1]
    ELSE LET r == SeedLoop(dbv, coll, id, 1, failAt, 1) IN
         [outcome |-> "returned", coll |-> r.coll, nextId |-> r.nextId, calls |-> r.calls]

\* --------------------------------------------------------------- inputs

Zeros(n) == [i \in 1..n |-> "0"]

\* Path parameters tried by Get Product: the first seeded identifier in
\* lower-case and an identifier in upper-case hexadecimal, an absent
\* well-formed identifier, a short string, a 24-character non-hex string.
ProductIdInputs ==
    { StrOfObjectId(9),
      Zeros(23) \o <<"A">>,
      Zeros(22) \o <<"c", "8">>,
      <<"a", "b", "c">>,
      Zeros(23) \o <<"g">> }

EmailInputs ==
    { <<"a", "@", "x">>, <<"b", "@", "X">>, <<"a", "x">> }

ItemInputs ==
    { <<>>,
      <<[product_id |-> "p1", quantity |-> 1]>>,
      <<[product_id |-> "p1", quantity |-> 0]>>,
      <<[product_id |-> "p1", quantity |-> 2], [product_id |-> "p2", quantity |-> -1]>> }

OrderOf(e, its) ==
    [name |-> "Ada", email |-> e, address |-> "1 Main St", city |-> "Oslo",
     country |-> "NO", items |-> its, notes |-> "none"]

OrderInputs ==
    { OrderOf(<<"a", "@", "X">>, its) : its \in ItemInputs }
    \cup { OrderOf(<<"a", "x">>, <<[product_id |-> "p1", quantity |-> 1]>>) }

SignupInputs == { [email |-> e] : e \in EmailInputs }

FailAtInputs == 0..(Len(sample_products) + 1)

\* A product left in the store by an earlier deployment.
LegacyProduct ==
    ("_id" :> 8) @@ ("title" :> "Rose Water Toner") @@ ("price" :> 12)
    @@ ("category" :> "skincare") @@ ("in_stock" :> FALSE)

\* ---------------------------------------------------------------- state

Init ==
    /\ db \in {"None", "Connected"}
    /\ product \in {<<>>, <<LegacyProduct>>}
    /\ order = <<>>
    /\ newsletter = <<>>
    /\ nextId = 9
    /\ pending = EmptyBag
    /\ history = <<>>
    /\ served = 0
    /\ seeded = 0

\* pre is the store when the handler started; calls counts its store calls.
Entry(op, arg, resp, pre, calls) ==
    [op |-> op, arg |-> arg, resp |-> resp, pre |-> pre, calls |-> calls]

Record(entry) ==
    IF Len(history) < 2 THEN Append(history, entry) ELSE <<history[2], entry>>

\* Number of requests a worker thread is busy with.
InFlight == BagCardinality(pending)

\* Requests are served once the startup event has run.
Serving == seeded >= 1 /\ served < MaxRequests

\* @app.on_event("startup"): the seeder runs to completion before the
\* process serves a request.
Startup(failAt) ==
    /\ seeded < MaxSeedRuns
    /\ InFlight = 0
    /\ seeded' = seeded + 1
    /\ LET r == seed_products_if_empty(db, product, nextId, failAt) IN
       /\ product' = r.coll
       /\ nextId' = r.nextId
       /\ history' = Record(Entry("seed", failAt, [outcome |-> r.outcome], Store, r.calls))
    /\ UNCHANGED <<db, order, newsletter, pending, served>>

ListProducts ==
    /\ Serving
    /\ served' = served + 1
    /\ LET r == list_products(db, product) IN
       history' = Record(Entry("list_products", <<>>, r.resp, Store, r.calls))
    /\ UNCHANGED <<db, product, order, newsletter, nextId, pending, seeded>>

GetProduct(product_id) ==
    /\ Serving
    /\ served' = served + 1
    /\ LET r == get_product(db, product, product_id) IN
       history' = Record(Entry("get_product", product_id, r.resp, Store, r.calls))
    /\ UNCHANGED <<db, product, order, newsletter, nextId, pending, seeded>>

CreateOrder(payload) ==
    /\ Serving
    /\ served' = served + 1
    /\ IF ~OrderValid(payload)
       THEN /\ history' = Record(Entry("create_order", payload, RequestValidationError, Store, 0))
            /\ UNCHANGED <<order, nextId>>
       ELSE LET r == create_order(db, order, payload, nextId) IN
            /\ order' = r.coll
            /\ nextId' = r.nextId
            /\ history' = Record(Entry("create_order", payload, r.resp, Store, r.calls))
    /\ UNCHANGED <<db, product, newsletter, pending, seeded>>

\* signup_newsletter up to and including the find_one call, on a free
\* worker thread.
SignupCheck(payload) ==
    /\ Serving
    /\ InFlight < MaxThreads
    /\ served' = served + 1
    /\ IF ~NewsletterSignupValid(payload)
       THEN /\ history' = Record(Entry("signup_newsletter", payload,
                                       RequestValidationError, Store, 0))
            /\ UNCHANGED pending
       ELSE IF db = "None"
       THEN /\ history' = Record(Entry("signup_newsletter", payload,
                   HTTPException(500, "StoreUnavailable", "Database not available"),
                   Store, 0))
            /\ UNCHANGED pending
       ELSE IF signup_newsletter_exists(newsletter, payload)
       THEN /\ history' = Record(Entry("signup_newsletter", payload,
                   Response(200, "ok", ("status" :> "already_subscribed")), Store, 1))
            /\ UNCHANGED pending
       ELSE /\ pending' = pending (+) SetToBag({[payload |-> payload, pre |-> Store]})
            /\ UNCHANGED history
    /\ UNCHANGED <<db, product, order, newsletter, nextId, seeded>>

\* signup_newsletter from the create_document call to the response.
SignupInsert(req) ==
    /\ BagIn(req, pending)
    /\ LET r == signup_newsletter_insert(db, newsletter, req.payload, nextId) IN
       /\ newsletter' = r.coll
       /\ nextId' = r.nextId
       /\ history' = Record(Entry("signup_newsletter", req.payload, r.resp,
                                  req.pre, 1 + r.calls))
    /\ pending' = pending (-) SetToBag({req})
    /\ UNCHANGED <<db, product, order, served, seeded>>

Next ==
    \/ \E failAt \in FailAtInputs : Startup(failAt)
    \/ ListProducts
    \/ \E product_id \in ProductIdInputs : GetProduct(product_id)
    \/ \E payload \in OrderInputs : CreateOrder(payload)
    \/ \E payload \in SignupInputs : SignupCheck(payload)
    \/ \E req \in BagToSet(pending) : SignupInsert(req)

Spec == Init /\ [][Next]_vars

\* The same handlers with one request served at a time: a step is taken
\* with no request in flight, or it completes the one in flight.
SeqNext ==
    \/ \E failAt \in FailAtInputs : Startup(failAt)
    \/ InFlight = 0 /\ ListProducts
    \/ InFlight = 0 /\ \E product_id \in ProductIdInputs : GetProduct(product_id)
    \/ InFlight = 0 /\ \E payload \in OrderInputs : CreateOrder(payload)
    \/ InFlight = 0 /\ \E payload \in SignupInputs : SignupCheck(payload)
    \/ \E req \in BagToSet(pending) : SignupInsert(req)

SeqSpec == Init /\ [][SeqNext]_vars


\* --------------------------------------------------------------- claims

Last == history[Len(history)]

IsRequest(e, op) == e.op = op

HasEmail(coll, e) == \E i \in 1..Len(coll) : coll[i]["email"] = e

\* The identifiers of the documents of a store snapshot, in string form.
IdsOf(st) ==
    {StrOfObjectId(st.product[i]["_id"]) : i \in 1..Len(st.product)}
    \cup {StrOfObjectId(st.order[i]["_id"]) : i \in 1..Len(st.order)}
    \cup {StrOfObjectId(st.newsletter[i]["_id"]) : i \in 1..Len(st.newsletter)}

SameEmailTwice ==
    /\ db = "Connected"
    /\ Len(history) = 2
    /\ IsRequest(history[1], "signup_newsletter")
    /\ IsRequest(history[2], "signup_newsletter")
    /\ EmailValid(history[1].arg.email)
    /\ EmailValid(history[2].arg.email)
    /\ EmailNormalized(history[1].arg.email) = EmailNormalized(history[2].arg.email)
    /\ ~HasEmail(history[1].pre.newsletter, EmailNormalized(history[1].arg.email))

\* C1: with requests served one after the other, two consecutive Newsletter
\* Signup calls with the same valid e-mail, the first on a store whose
\* newsletter collection holds no document with it, answer "subscribed" with
\* a new id and then "already_subscribed" with no id and no mutation, and the
\* newsletter collection ends exactly one document larger than it began.
C1_SignupTwice ==
    SameEmailTwice =>
        LET first == history[1]
            second == history[2]
            e == EmailNormalized(first.arg.email)
        IN /\ first.resp.status = 200
           /\ first.resp.body["status"] = "subscribed"
           /\ "id" \in DOMAIN first.resp.body
           /\ first.resp.body["id"] \notin IdsOf(first.pre)
           /\ second.pre.newsletter =
                  Append(first.pre.newsletter,
                         ("_id" :> ObjectIdOf(first.resp.body["id"])) @@ ("email" :> e))
           /\ second.resp.status = 200
           /\ DOMAIN second.resp.body = {"status"}
           /\ second.resp.body["status"] = "already_subscribed"
           /\ Store = second.pre
           /\ Len(newsletter) = Len(first.pre.newsletter) + 1

C1_Witness ==
    /\ SameEmailTwice
    /\ history[1].arg.email = history[2].arg.email
    /\ history[1].resp.body["status"] = "subscribed"
    /\ history[2].resp.body["status"] = "already_subscribed"

\* C2: the newsletter collection never holds two documents with the same
\* e-mail, however the store calls of concurrent signups interleave.
C2_AtMostOnePerEmail ==
    \A i, j \in 1..Len(newsletter) :
        newsletter[i]["email"] = newsletter[j]["email"] => i = j

\* C3: a run of the seeder on a store whose product collection holds at
\* least one document performs no insert (at most the one count call) and
\* leaves every collection, the product collection included, as it was.
C3_SeederIdempotent ==
    (Len(history) > 0 /\ IsRequest(Last, "seed") /\ Len(Last.pre.product) >= 1) =>
        /\ product = Last.pre.product
        /\ Store = Last.pre
        /\ Last.calls <= 1
        /\ Last.resp.outcome = "returned"

\* A second run directly after a first run that seeded an empty store.
C3_Witness ==
    /\ db = "Connected"
    /\ Len(history) = 2
    /\ IsRequest(history[1], "seed")
    /\ IsRequest(history[2], "seed")
    /\ history[1].pre.product = <<>>
    /\ history[1].arg = 5
    /\ Len(history[2].pre.product) = 4
    /\ Len(product) = 4

Matches(coll, product_id) ==
    {i \in 1..Len(coll) : coll[i]["_id"] = ObjectIdOf(product_id)}

\* C4: with the store connected, Get Product answers a malformed id with
\* the InvalidIdentifier error (status 400), a well-formed id of no product
\* with the NotFound error (status 404, a different status), and a
\* well-formed id of a product with that product, normalised, and no error.
C4_GetProductOutcomes ==
    \A n \in 1..Len(history) :
        LET e == history[n] IN
        (IsRequest(e, "get_product") /\ db = "Connected") =>
            /\ ~ObjectIdValid(e.arg) =>
                   e.resp.kind = "InvalidIdentifier" /\ e.resp.status = 400
            /\ (ObjectIdValid(e.arg) /\ Matches(e.pre.product, e.arg) = {}) =>
                   e.resp.kind = "NotFound" /\ e.resp.status = 404
            /\ (ObjectIdValid(e.arg) /\ Matches(e.pre.product, e.arg) # {}) =>
                   /\ e.resp.kind = "ok" /\ e.resp.status = 200
                   /\ \E i \in Matches(e.pre.product, e.arg) :
                          /\ e.resp.body = to_str_id(e.pre.product[i])
                          /\ ObjectIdOf(e.resp.body["id"]) = ObjectIdOf(e.arg)

C4_Witness ==
    /\ db = "Connected"
    /\ Len(history) = 2
    /\ IsRequest(history[1], "get_product")
    /\ IsRequest(history[2], "get_product")
    /\ history[1].resp.kind = "InvalidIdentifier"
    /\ history[2].resp.kind = "NotFound"
    /\ history[1].resp.status # history[2].resp.status

PayloadValid(e) ==
    CASE e.op = "create_order" -> OrderValid(e.arg)
      [] e.op = "signup_newsletter" -> NewsletterSignupValid(e.arg)
      [] OTHER -> TRUE

UnavailableState ==
    /\ pending = EmptyBag
    /\ order = <<>>
    /\ newsletter = <<>>
    /\ \A n \in 1..Len(history) :
           LET e == history[n] IN
           /\ e.calls = 0
           /\ e.pre = Store
           /\ IsRequest(e, "seed") => e.resp.outcome = "returned"
           /\ (~IsRequest(e, "seed") /\ PayloadValid(e)) =>
                  /\ e.resp.kind = "StoreUnavailable"
                  /\ e.resp.status >= 400
                  /\ "detail" \in DOMAIN e.resp.body

HasBadQuantity(o) == \E i \in 1..Len(o.items) : o.items[i].quantity < 1

\* C6: Create Order with an item of quantity below 1 is answered with the
\* validation error, makes no store call and leaves the order collection
\* (and the rest of the store) as it was.
C6_BadQuantityRejected ==
    (Len(history) > 0 /\ IsRequest(Last, "create_order") /\ HasBadQuantity(Last.arg)) =>
        /\ Last.resp.kind = "ValidationFailed"
        /\ Last.resp.status = 422
        /\ Last.calls = 0
        /\ order = Last.pre.order
        /\ Store = Last.pre

C6_Witness ==
    /\ db = "Connected"
    /\ Len(history) = 2
    /\ IsRequest(history[1], "create_order")
    /\ history[1].resp.kind = "ok"
    /\ IsRequest(Last, "create_order")
    /\ \E i \in 1..Len(Last.arg.items) : Last.arg.items[i].quantity = 0
    /\ Last.resp.kind = "ValidationFailed"
    /\ Len(order) = 1

\* C7: Create Order with an empty items sequence is never answered
\* {id, status: "received"}, and every document of the order collection has
\* a non-empty items sequence.
C7_EmptyItemsRejected ==
    /\ \A i \in 1..Len(order) : order[i]["items"] # <<>>
    /\ \A n \in 1..Len(history) :
           (IsRequest(history[n], "create_order") /\ history[n].arg.items = <<>>) =>
               ~(history[n].resp.status = 200
                 /\ history[n].resp.body["status"] = "received")

IsLowerHex24(s) ==
    Len(s) = 24 /\ \A i \in 1..Len(s) : \E d \in 1..16 : HexLower[d] = s[i]

\* C8: List Products on a connected store returns one resource per product
\* document, in store order; each resource has the field id, the 24-digit
\* lower-case hexadecimal string of the document's _id, has no field _id,
\* and has every other field of the document with the document's value.
C8_ListNormalized ==
    (Len(history) > 0 /\ IsRequest(Last, "list_products") /\ db = "Connected") =>
        /\ Last.resp.status = 200
        /\ Len(Last.resp.body) = Len(product)
        /\ \A i \in 1..Len(product) :
               LET res == Last.resp.body[i]
                   doc == product[i]
               IN /\ DOMAIN res = ((DOMAIN doc) \ {"_id"}) \cup {"id"}
                  /\ "_id" \notin DOMAIN res
                  /\ IsLowerHex24(res["id"])
                  /\ ObjectIdOf(res["id"]) = doc["_id"]
                  /\ \A k \in (DOMAIN doc) \ {"_id"} : res[k] = doc[k]

C8_Witness ==
    /\ db = "Connected"
    /\ Len(history) = 2
    /\ IsRequest(history[1], "seed")
    /\ history[1].pre.product = <<>>
    /\ IsRequest(Last, "list_products")
    /\ Len(Last.resp.body) = 4
    /\ Last.resp.body[2]["id"] = Zeros(23) \o <<"a">>
    /\ Last.resp.body[2]["title"] = "Velvet Matte Lipstick"

\* The status Get Product gives a malformed id, and a well-formed id of no
\* product, on a connected store.
InvalidIdentifierStatus == get_product("Connected", <<>>, <<"a", "b", "c">>).resp.status
NotFoundStatus == get_product("Connected", <<>>, Zeros(24)).resp.status

\* C9: in Get Product the StoreUnavailable, InvalidIdentifier and NotFound
\* outcomes have three pairwise distinct statuses.
C9_DistinctStatuses ==
    /\ InvalidIdentifierStatus # NotFoundStatus
    /\ \A n \in 1..Len(history) :
           (IsRequest(history[n], "get_product")
            /\ history[n].resp.kind = "StoreUnavailable") =>
               /\ history[n].resp.status # InvalidIdentifierStatus
               /\ history[n].resp.status # NotFoundStatus

\* Number of baseline products a run inserts when its failAt-th call fails.
InsertedBefore(failAt) ==
    IF failAt = 0 THEN 0
    ELSE IF failAt \in 1..Len(sample_products) THEN failAt - 1
    ELSE Len(sample_products)

\* C10: every run of the seeder returns normally; a run on a connected
\* store with an empty product collection leaves exactly the baseline
\* products inserted before the failing call, in the fixed order (all four
\* with no failure), and any other run leaves the collection as it was.
C10_SeederSwallowsFailures ==
    (Len(history) > 0 /\ IsRequest(Last, "seed")) =>
        /\ Last.resp.outcome = "returned"
        /\ IF db = "Connected" /\ Last.pre.product = <<>>
           THEN /\ Len(product) = InsertedBefore(Last.arg)
                /\ \A i \in 1..Len(product) :
                       /\ Without(product[i], "_id") = sample_products[i]
                       /\ \A j \in 1..Len(product) :
                              product[i]["_id"] = product[j]["_id"] => i = j
           ELSE product = Last.pre.product

\* The third of the four inserts failed: two baseline products remain.
C10_Witness ==
    /\ db = "Connected"
    /\ Len(history) > 0
    /\ IsRequest(Last, "seed")
    /\ Last.pre.product = <<>>
    /\ Last.arg = 3
    /\ Len(product) = 2
    /\ Last.resp.outcome = "returned"

====
